---- MODULE Spec2Model ----
(***************************************************************************)
(* Model of teetimealerts_preferences.py: one run of the command-line      *)
(* client, from argument validation to the preferences update.             *)
(*                                                                         *)
(* Text (command-line strings, console input) is a sequence of one-        *)
(* character strings, so that strip(), lower(), split(',') and int() are   *)
(* computed as Python computes them.                                       *)
(***************************************************************************)
EXTENDS Integers, Sequences, FiniteSets, TLC

\* ------------------------------------------------------------------ bounds
\* how far outside the accepted ranges the sampled arguments reach
HourSlack == 1
PlayerSlack == 1
\* longest course listing the search returns
MaxCourses == 3
\* longest index list rendered as a selection input
MaxPick == 2
\* number of invalid selections after which the console input is not
\* followed further
MaxPrompts == 2

\* ------------------------------------------------------- program constants
MinHour == 0
MaxHour == 23
MinPlayers == 1
MaxPlayers == 4
DefaultRadius == 50

\* ------------------------------------------------------------ text helpers
None == "<None>"

Digits == <<"0", "1", "2", "3", "4", "5", "6", "7", "8", "9">>

IsDigit(c) == \E i \in 1..10 : Digits[i] = c

DigitVal(c) == (CHOOSE i \in 1..10 : Digits[i] = c) - 1

IsSpace(c) == c \in {" ", "\t", "\n"}

LowerChar(c) ==
  CASE c = "A" -> "a" [] c = "L" -> "l" [] c = "Y" -> "y" [] c = "E" -> "e"
    [] c = "S" -> "s" [] c = "N" -> "n" [] c = "O" -> "o" [] c = "R" -> "r"
    [] c = "T" -> "t" [] OTHER -> c

Lower(s) == [i \in 1..Len(s) |-> LowerChar(s[i])]

RECURSIVE LStrip(_)
LStrip(s) ==
  IF s = <<>> THEN s
  ELSE IF IsSpace(Head(s)) THEN LStrip(Tail(s)) ELSE s

RECURSIVE RStrip(_)
RStrip(s) ==
  IF s = <<>> THEN s
  ELSE IF IsSpace(s[Len(s)]) THEN RStrip(SubSeq(s, 1, Len(s) - 1)) ELSE s

Strip(s) == RStrip(LStrip(s))

RECURSIVE Split(_, _)
Split(s, sep) ==
  IF \A i \in 1..Len(s) : s[i] # sep THEN <<s>>
  ELSE LET k == CHOOSE i \in 1..Len(s) :
                  s[i] = sep /\ \A j \in 1..(i - 1) : s[j] # sep
       IN  <<SubSeq(s, 1, k - 1)>> \o Split(SubSeq(s, k + 1, Len(s)), sep)

RECURSIVE DigitsValue(_)
DigitsValue(s) ==
  IF s = <<>> THEN 0
  ELSE IF s[Len(s)] = "_" THEN DigitsValue(SubSeq(s, 1, Len(s) - 1))
  ELSE 10 * DigitsValue(SubSeq(s, 1, Len(s) - 1)) + DigitVal(s[Len(s)])

\* Python int(x) on text: surrounding whitespace dropped, an optional sign,
\* then digits, single underscores allowed between digits.  ok = FALSE
\* stands for the ValueError int() raises.
ParseInt(x) ==
  LET t    == Strip(x)
      sgn  == IF t # <<>> /\ Head(t) \in {"+", "-"} THEN Head(t) ELSE "+"
      body == IF t # <<>> /\ Head(t) \in {"+", "-"} THEN Tail(t) ELSE t
      ok   == /\ body # <<>>
              /\ IsDigit(body[1]) /\ IsDigit(body[Len(body)])
              /\ \A i \in 1..Len(body) : IsDigit(body[i]) \/ body[i] = "_"
              /\ \A i \in 1..(Len(body) - 1) :
                   ~(body[i] = "_" /\ body[i + 1] = "_")
  IN  IF ~ok THEN [ok |-> FALSE, val |-> 0]
      ELSE [ok |-> TRUE,
            val |-> IF sgn = "-" THEN 0 - DigitsValue(body)
                    ELSE DigitsValue(body)]

\* ------------------------------------------------------------- validate_date
IsLeap(y) == (y % 4 = 0 /\ y % 100 # 0) \/ y % 400 = 0

DaysInMonth(y, m) ==
  IF m = 2 THEN (IF IsLeap(y) THEN 29 ELSE 28)
  ELSE IF m \in {4, 6, 9, 11} THEN 30 ELSE 31

\* %Y : exactly four digits
YearField(s) == Len(s) = 4 /\ \A i \in 1..4 : IsDigit(s[i])

\* %m : 1[0-2] | 0[1-9] | [1-9]
MonthField(s) ==
  \/ Len(s) = 2 /\ s[1] = "1" /\ s[2] \in {"0", "1", "2"}
  \/ Len(s) = 2 /\ s[1] = "0" /\ IsDigit(s[2]) /\ s[2] # "0"
  \/ Len(s) = 1 /\ IsDigit(s[1]) /\ s[1] # "0"

\* %d : 3[01] | [12]\d | 0[1-9] | [1-9] | " "[1-9]
DayField(s) ==
  \/ Len(s) = 2 /\ s[1] = "3" /\ s[2] \in {"0", "1"}
  \/ Len(s) = 2 /\ s[1] \in {"1", "2"} /\ IsDigit(s[2])
  \/ Len(s) = 2 /\ s[1] \in {"0", " "} /\ IsDigit(s[2]) /\ s[2] # "0"
  \/ Len(s) = 1 /\ IsDigit(s[1]) /\ s[1] # "0"

validate_date(date_string) ==
  LET parts == Split(date_string, "-")
  IN  /\ Len(parts) = 3
      /\ YearField(parts[1]) /\ MonthField(parts[2]) /\ DayField(parts[3])
      /\ LET y == DigitsValue(parts[1])
             m == DigitsValue(parts[2])
             d == DigitsValue(Strip(parts[3]))
         IN  y >= 1 /\ d <= DaysInMonth(y, m)

\* ------------------------------------------------------------ config store
EmptyDict == [k \in {} |-> <<>>]

\* assignment that replaces the mapping instead of updating it
DictSet_Replace(d, k, v) == [x \in {k} |-> v]


DictSet(d, k, v) == [x \in DOMAIN d \cup {k} |-> IF x = k THEN v ELSE d[x]]

\* load_config: the mapping in the file, {} when the file is missing or
\* does not parse
load_config(f) == IF f.kind = "json" THEN f.data ELSE EmptyDict

\* save_config: the file holds the JSON text of the mapping
save_config(cfg) == [kind |-> "json", data |-> cfg]

\* ---------------------------------------------------------- select_courses
CourseNames == <<"torrey", "augusta", "pebble", "bethpage", "sawgrass">>

Listing(n) == [i \in 1..n |-> [course_name |-> CourseNames[i],
                               course_fullname |-> <<CourseNames[i], "GC">>]]

RECURSIVE InRange(_, _)
InRange(indices, courses) ==
  IF indices = <<>> THEN <<>>
  ELSE LET idx == Head(indices)
       IN  (IF 0 <= idx /\ idx < Len(courses)
            THEN <<courses[idx + 1].course_name>> ELSE <<>>)
           \o InRange(Tail(indices), courses)

\* select_courses with the except branch returning an empty selection
\* instead of prompting again
select_courses_NoRetry(courses, raw) ==
  LET selection == Lower(Strip(raw))
      toks      == Split(selection, ",")
      ints      == [i \in 1..Len(toks) |-> ParseInt(Strip(toks[i]))]
  IN  IF selection = <<"a", "l", "l">>
      THEN [returned |-> TRUE,
            value |-> [i \in 1..Len(courses) |-> courses[i].course_name]]
      ELSE IF \E i \in 1..Len(ints) : ~ints[i].ok
      THEN [returned |-> TRUE, value |-> <<>>]
      ELSE [returned |-> TRUE,
            value |-> InRange([i \in 1..Len(ints) |-> ints[i].val - 1],
                              courses)]

\* select_courses without the "- 1" that makes the positions 1-based
select_courses_ZeroBased(courses, raw) ==
  LET selection == Lower(Strip(raw))
      toks      == Split(selection, ",")
      ints      == [i \in 1..Len(toks) |-> ParseInt(Strip(toks[i]))]
  IN  IF selection = <<"a", "l", "l">>
      THEN [returned |-> TRUE,
            value |-> [i \in 1..Len(courses) |-> courses[i].course_name]]
      ELSE IF \E i \in 1..Len(ints) : ~ints[i].ok
      THEN [returned |-> FALSE, value |-> <<>>]
      ELSE [returned |-> TRUE,
            value |-> InRange([i \in 1..Len(ints) |-> ints[i].val],
                              courses)]

\* one pass through the body of select_courses on the console line raw:
\* returned = FALSE is the except branch, which prompts again
select_courses(courses, raw) ==
  LET selection == Lower(Strip(raw))
      toks      == Split(selection, ",")
      ints      == [i \in 1..Len(toks) |-> ParseInt(Strip(toks[i]))]
  IN  IF selection = <<"a", "l", "l">>
      THEN [returned |-> TRUE,
            value |-> [i \in 1..Len(courses) |-> courses[i].course_name]]
      ELSE IF \E i \in 1..Len(ints) : ~ints[i].ok
      THEN [returned |-> FALSE, value |-> <<>>]
      ELSE [returned |-> TRUE,
            value |-> InRange([i \in 1..Len(ints) |-> ints[i].val - 1],
                              courses)]

\* ------------------------------------------------------------------- state
VARIABLES
  pc,             \* position of the run in main / get_or_set_default_courses
  exitCode,       \* process exit status, NoExit while running
  message,        \* last error line printed
  start_time, end_time, date, num_players,   \* parsed command line
  environ,        \* process environment after load_dotenv
  email, password,
  file,           \* ~/.teetimealerts/config.json
  file_at_start,  \* the same file as the run found it
  config,         \* mapping returned by load_config
  response_input, \* line typed at the reuse prompt, as read by input()
  zipcode,        \* answer to the ZIP prompt, stripped
  search_reply,   \* what the course search endpoint answered
  found,          \* courses returned by search_courses_by_zip
  selection_input, \* line typed at the selection prompt, as read by input()
  selected,       \* value returned by select_courses
  courses,        \* value returned by get_or_set_default_courses
  auth_response,  \* mapping returned by authenticate
  net,            \* HTTP requests issued so far, in order
  readCount, writeCount,   \* opens of the config file for read / write
  prompts         \* selection prompts printed so far

vars == <<pc, exitCode, message, start_time, end_time, date, num_players,
          environ, email, password, file, file_at_start, config,
          response_input, zipcode, search_reply, found, selection_input,
          selected, courses,
          auth_response, net, readCount, writeCount, prompts>>

NoExit == 0 - 1
NoText == <<"<unset>">>
NoReply == [status |-> "none", body |-> EmptyDict]

\* ------------------------------------------------------------------ inputs
HoursFull == (MinHour - HourSlack)..(MaxHour + HourSlack)
PlayersFull == (MinPlayers - PlayerSlack)..(MaxPlayers + PlayerSlack)
HoursSample == {MinHour - HourSlack, MinHour, MaxHour, MaxHour + HourSlack}
PlayersSample == {MinPlayers - PlayerSlack, MaxPlayers,
                  MaxPlayers + PlayerSlack}

GoodDates == { <<"2", "0", "2", "4", "-", "0", "2", "-", "2", "9">>,
               <<"2", "0", "2", "4", "-", "1", "-", "5">> }
BadDates  == { <<"2", "0", "2", "3", "-", "0", "2", "-", "2", "9">>,
               <<"2", "0", "2", "4", "-", "1", "3", "-", "4", "0">>,
               <<"0", "1", "/", "0", "1", "/", "2", "0", "2", "4">>,
               <<"2", "0", "2", "4", "-", "0", "6", "-", "1", "5", " ">>,
               <<"0", "0", "0", "0", "-", "0", "1", "-", "0", "1">>,
               <<>> }

EnvValues == {None, "", "set"}
Environs == [EMAIL : EnvValues, PASSWORD : EnvValues]

Zip90210 == <<"9", "0", "2", "1", "0">>

ConfigFiles ==
  { [kind |-> "missing", data |-> EmptyDict],
    [kind |-> "corrupt", data |-> EmptyDict],
    [kind |-> "json", data |-> EmptyDict],
    [kind |-> "json", data |-> [default_courses |-> <<>>,
                                zipcode |-> Zip90210]],
    [kind |-> "json", data |-> [default_courses |-> <<"bethpage">>]],
    [kind |-> "json", data |-> [default_courses |-> <<"pebble", "torrey">>,
                                zipcode |-> Zip90210]] }

\* answers to the reuse prompt
AnswersReset == { <<"r", "e", "s", "e", "t">>, <<" ", "R", "e", "s", "e", "t", " ">>,
                  <<"n">>, <<"N", "O", "\t">> }
AnswersKeep  == { <<"y">>, <<"Y", "E", "S">>, <<>>, <<" ", " ">>,
                  <<"m", "a", "y", "b", "e">>, <<"n", "o", "p", "e">>,
                  <<"r", "e", " ", "s", "e", "t">> }

ZipInputs == { <<>>, <<" ", " ">>, <<" ", "1", "0", "0", "0", "1", " ">> }

\* replies of the course search endpoint
SearchReplies ==
  { [status |-> "transport_error", body |-> EmptyDict],
    [status |-> "http_500", body |-> EmptyDict],
    [status |-> "ok", body |-> EmptyDict] }
  \cup { [status |-> "ok", body |-> [courses |-> Listing(n)]] :
           n \in 0..MaxCourses }

\* replies of the identity endpoint
AuthReplies ==
  { [status |-> "transport_error", body |-> EmptyDict],
    [status |-> "http_400", body |-> EmptyDict],
    [status |-> "ok", body |-> [displayName |-> "Golfer"]],
    [status |-> "ok", body |-> [idToken |-> ""]],
    [status |-> "ok", body |-> [idToken |-> "token", displayName |-> "Golfer"]] }

UpdateReplies == {"ok", "transport_error", "http_500"}

RECURSIVE IntToText(_)
IntToText(n) ==
  IF n < 10 THEN <<Digits[n + 1]>>
  ELSE IntToText(n \div 10) \o <<Digits[(n % 10) + 1]>>

\* the console line a user types for a list of 1-based positions
RECURSIVE Render(_)
Render(ix) ==
  IF Len(ix) = 1 THEN IntToText(ix[1])
  ELSE IntToText(ix[1]) \o <<",">> \o Render(Tail(ix))

IndexLists == UNION { [1..k -> 1..MaxCourses] : k \in 1..MaxPick }

SelectAll == { <<"a", "l", "l">>, <<" ", "A", "l", "l", "\t">> }
SelectNonNumeric ==
  { <<>>, <<"a", "b", "c">>, <<"1", ",", ",", "2">>, <<"1", ",", "x">>,
    <<"a", "l", "l", ",", "1">>, <<"1", ".", "5">> }
\* numeric lines with at least one position outside 1..MaxCourses, each with
\* the positions it names
OutOfRangeCases ==
  { [line |-> <<"0">>, positions |-> <<0>>],
    [line |-> <<"-", "1">>, positions |-> <<0 - 1>>],
    [line |-> <<"1", ",", "9">>, positions |-> <<1, 9>>],
    [line |-> <<"1", "2">>, positions |-> <<12>>],
    [line |-> <<" ", "2", " ", ",", "0", ",", "+", "1">>,
     positions |-> <<2, 0, 1>>] }
SelectOutOfRange == { c.line : c \in OutOfRangeCases }
SelectInputs ==
  SelectAll \cup SelectNonNumeric \cup SelectOutOfRange
  \cup { Render(ix) : ix \in IndexLists }

\* -------------------------------------------------------------------- Init
InitWith(hours, players, dates, envs, files) ==
  /\ pc = "validate_args"
  /\ exitCode = NoExit
  /\ message = None
  /\ start_time \in hours
  /\ end_time \in hours
  /\ num_players \in players
  /\ date \in dates
  /\ environ \in envs
  /\ email = None
  /\ password = None
  /\ file \in files
  /\ file_at_start = file
  /\ config = EmptyDict
  /\ response_input = NoText
  /\ zipcode = NoText
  /\ search_reply = NoReply
  /\ found = <<>>
  /\ selection_input = NoText
  /\ selected = <<>>
  /\ courses = <<>>
  /\ auth_response = EmptyDict
  /\ net = <<>>
  /\ readCount = 0
  /\ writeCount = 0
  /\ prompts = 0

Init == InitWith(HoursSample, PlayersSample, GoodDates \cup BadDates,
                 Environs, ConfigFiles)

\* sys.exit(1) after printing msg
Fail(msg) ==
  /\ pc' = "exit"
  /\ exitCode' = 1
  /\ message' = msg

\* ----------------------------------------------------------- main: checks
\* the checks with "start_time > end_time" for the third
ArgsError_AllowEqual(s, e, p) ==
  IF ~(MinHour <= s /\ s <= MaxHour)
  THEN "Start time must be between 0 and 23"
  ELSE IF ~(MinHour <= e /\ e <= MaxHour)
  THEN "End time must be between 0 and 23"
  ELSE IF s > e
  THEN "Start time must be before end time"
  ELSE IF ~(MinPlayers <= p /\ p <= MaxPlayers)
  THEN "Number of players must be between 1 and 4"
  ELSE None

\* the four checks of the try block, in order; the result is the message
\* of the ValueError raised, None when none is
ArgsError(s, e, p) ==
  IF ~(MinHour <= s /\ s <= MaxHour)
  THEN "Start time must be between 0 and 23"
  ELSE IF ~(MinHour <= e /\ e <= MaxHour)
  THEN "End time must be between 0 and 23"
  ELSE IF s >= e
  THEN "Start time must be before end time"
  ELSE IF ~(MinPlayers <= p /\ p <= MaxPlayers)
  THEN "Number of players must be between 1 and 4"
  ELSE None

ValidateArgs ==
  /\ pc = "validate_args"
  /\ LET err == ArgsError(start_time, end_time, num_players)
     IN  IF err # None THEN Fail(err)
         ELSE /\ pc' = "validate_date"
              /\ UNCHANGED <<exitCode, message>>
  /\ UNCHANGED <<start_time, end_time, date, num_players, environ, email,
                 password, file, file_at_start, config, response_input, zipcode,
                 search_reply, found, selection_input, selected, courses,
                 auth_response, net, readCount, writeCount, prompts>>

ValidateDate ==
  /\ pc = "validate_date"
  /\ IF ~validate_date(date)
     THEN Fail("Invalid date format. Please use YYYY-MM-DD")
     ELSE /\ pc' = "load_credentials"
          /\ UNCHANGED <<exitCode, message>>
  /\ UNCHANGED <<start_time, end_time, date, num_players, environ, email,
                 password, file, file_at_start, config, response_input, zipcode,
                 search_reply, found, selection_input, selected, courses,
                 auth_response, net, readCount, writeCount, prompts>>

\* Python truth value of an os.getenv result
Truthy(v) == v # None /\ v # ""

\* "and" for "or"
CredentialsMissing_Both(em, pw) == ~Truthy(em) /\ ~Truthy(pw)


CredentialsMissing(em, pw) == ~Truthy(em) \/ ~Truthy(pw)

LoadCredentials ==
  /\ pc = "load_credentials"
  /\ email' = environ.EMAIL
  /\ password' = environ.PASSWORD
  /\ IF CredentialsMissing(environ.EMAIL, environ.PASSWORD)
     THEN Fail("EMAIL and PASSWORD must be set in .env file")
     ELSE /\ pc' = "load_config"
          /\ UNCHANGED <<exitCode, message>>
  /\ UNCHANGED <<start_time, end_time, date, num_players, environ, file,
                 file_at_start, config, response_input, zipcode, search_reply,
                 found, selection_input, selected, courses, auth_response, net,
                 readCount, writeCount, prompts>>

\* ----------------------------------------------- get_or_set_default_courses
HasDefaults(cfg) ==
  "default_courses" \in DOMAIN cfg /\ cfg["default_courses"] # <<>>

LoadConfig ==
  /\ pc = "load_config"
  /\ config' = load_config(file)
  /\ readCount' = readCount + 1
  /\ pc' = IF HasDefaults(load_config(file)) THEN "reuse_prompt"
           ELSE "zip_prompt"
  /\ UNCHANGED <<exitCode, message, start_time, end_time, date, num_players,
                 environ, email, password, file, file_at_start, response_input,
                 zipcode, search_reply, found, selection_input, selected, courses,
                 auth_response, net, writeCount, prompts>>

\* only y, yes and the empty answer reuse the saved list
UseSaved_YesOnly(r) == r = <<"y">> \/ r = <<"y", "e", "s">> \/ r = <<>>

\* the answer n is not recognised
UseSaved_NoN(r) ==
  IF r = <<"y">> \/ r = <<"y", "e", "s">> \/ r = <<>> THEN TRUE
  ELSE r # <<"r", "e", "s", "e", "t">> /\ r # <<"n", "o">>

\* the two branches that return config['default_courses']
UseSaved(r) ==
  IF r = <<"y">> \/ r = <<"y", "e", "s">> \/ r = <<>> THEN TRUE
  ELSE r # <<"r", "e", "s", "e", "t">> /\ r # <<"n">> /\ r # <<"n", "o">>

ReusePrompt ==
  /\ pc = "reuse_prompt"
  /\ \E raw \in AnswersReset \cup AnswersKeep :
       /\ response_input' = raw
       /\ IF UseSaved(Lower(Strip(raw)))
          THEN /\ courses' = config["default_courses"]
               /\ pc' = "check_courses"
          ELSE /\ pc' = "zip_prompt"
               /\ UNCHANGED courses
  /\ UNCHANGED <<exitCode, message, start_time, end_time, date, num_players,
                 environ, email, password, file, file_at_start, config,
                 zipcode, search_reply, found, selection_input, selected,
                 auth_response, net, readCount, writeCount, prompts>>

ZipPrompt ==
  /\ pc = "zip_prompt"
  /\ \E raw \in ZipInputs :
       /\ zipcode' = Strip(raw)
       /\ IF Strip(raw) = <<>> THEN Fail("ZIP code is required")
          ELSE /\ pc' = "search"
               /\ UNCHANGED <<exitCode, message>>
  /\ UNCHANGED <<start_time, end_time, date, num_players, environ, email,
                 password, file, file_at_start, config, response_input,
                 search_reply, found, selection_input, selected, courses,
                 auth_response, net, readCount, writeCount, prompts>>

\* search_courses_by_zip: what the function returns for a reply
search_courses_by_zip(reply) ==
  IF reply.status # "ok" THEN <<>>
  ELSE IF "courses" \in DOMAIN reply.body THEN reply.body["courses"]
  ELSE <<>>

\* the search ending the process on a failed request, as authenticate does
SearchCourses_ExitOnError ==
  /\ pc = "search"
  /\ net' = Append(net, [kind |-> "search", zipCode |-> zipcode,
                         radius |-> DefaultRadius])
  /\ \E reply \in SearchReplies :
       /\ search_reply' = reply
       /\ found' = search_courses_by_zip(reply)
       /\ IF reply.status # "ok" THEN Fail("Error searching courses")
          ELSE /\ pc' = "check_found"
               /\ UNCHANGED <<exitCode, message>>
  /\ UNCHANGED <<start_time, end_time, date, num_players,
                 environ, email, password, file, file_at_start, config,
                 response_input, zipcode, selection_input, selected, courses,
                 auth_response, readCount, writeCount, prompts>>


SearchCourses ==
  /\ pc = "search"
  /\ net' = Append(net, [kind |-> "search", zipCode |-> zipcode,
                         radius |-> DefaultRadius])
  /\ \E reply \in SearchReplies :
       /\ search_reply' = reply
       /\ found' = search_courses_by_zip(reply)
  /\ pc' = "check_found"
  /\ UNCHANGED <<exitCode, message, start_time, end_time, date, num_players,
                 environ, email, password, file, file_at_start, config,
                 response_input, zipcode, selection_input, selected, courses,
                 auth_response, readCount, writeCount, prompts>>

CheckFound ==
  /\ pc = "check_found"
  /\ IF found = <<>>
     THEN Fail("No courses found. Please check your ZIP code and try again.")
     ELSE /\ pc' = "select"
          /\ UNCHANGED <<exitCode, message>>
  /\ UNCHANGED <<start_time, end_time, date, num_players, environ, email,
                 password, file, file_at_start, config, response_input,
                 zipcode, search_reply, found, selection_input, selected,
                 courses, auth_response, net, readCount, writeCount, prompts>>

SelectCourses ==
  /\ pc = "select"
  /\ IF found = <<>>
     THEN /\ selected' = <<>>
          /\ pc' = "check_selected"
          /\ UNCHANGED <<message, selection_input, prompts>>
     ELSE \E raw \in SelectInputs :
            LET r == select_courses(found, raw)
            IN  /\ selection_input' = raw
                /\ prompts' = prompts + 1
                /\ IF r.returned
                   THEN /\ selected' = r.value
                        /\ pc' = "check_selected"
                        /\ UNCHANGED message
                   ELSE /\ prompts < MaxPrompts
                        /\ message' = "Invalid selection. Please try again."
                        /\ pc' = "select"
                        /\ UNCHANGED selected
  /\ UNCHANGED <<exitCode, start_time, end_time, date, num_players, environ,
                 email, password, file, file_at_start, config, response_input,
                 zipcode, search_reply, found, courses, auth_response, net,
                 readCount, writeCount>>

\* the selection saved before it is checked for emptiness
SaveSelection_WriteFirst ==
  /\ pc = "check_selected"
  /\ LET cfg == DictSet(DictSet(config, "default_courses", selected),
                        "zipcode", zipcode)
     IN  /\ config' = cfg
         /\ file' = save_config(cfg)
         /\ writeCount' = writeCount + 1
  /\ IF selected = <<>>
     THEN /\ Fail("No courses selected.")
          /\ UNCHANGED courses
     ELSE /\ courses' = selected
          /\ pc' = "check_courses"
          /\ UNCHANGED <<exitCode, message>>
  /\ UNCHANGED <<start_time, end_time, date, num_players, environ, email,
                 password, file_at_start, response_input, zipcode,
                 search_reply, found, selection_input, selected,
                 auth_response, net, readCount, prompts>>


SaveSelection ==
  /\ pc = "check_selected"
  /\ IF selected = <<>>
     THEN /\ Fail("No courses selected.")
          /\ UNCHANGED <<config, file, writeCount, courses>>
     ELSE LET cfg == DictSet(DictSet(config, "default_courses", selected),
                             "zipcode", zipcode)
          IN  /\ config' = cfg
              /\ file' = save_config(cfg)
              /\ writeCount' = writeCount + 1
              /\ courses' = selected
              /\ pc' = "check_courses"
              /\ UNCHANGED <<exitCode, message>>
  /\ UNCHANGED <<start_time, end_time, date, num_players, environ, email,
                 password, file_at_start, response_input, zipcode,
                 search_reply, found, selection_input, selected,
                 auth_response, net, readCount, prompts>>

\* ------------------------------------------------- main: authenticate, update
CheckCourses ==
  /\ pc = "check_courses"
  /\ IF courses = <<>> THEN Fail("Error: No courses selected")
     ELSE /\ pc' = "authenticate"
          /\ UNCHANGED <<exitCode, message>>
  /\ UNCHANGED <<start_time, end_time, date, num_players, environ, email,
                 password, file, file_at_start, config, response_input,
                 zipcode, search_reply, found, selection_input, selected,
                 courses, auth_response, net, readCount, writeCount, prompts>>

Authenticate ==
  /\ pc = "authenticate"
  /\ net' = Append(net, [kind |-> "auth", email |-> email,
                         password |-> password])
  /\ \E reply \in AuthReplies :
       IF reply.status # "ok"
       THEN /\ Fail("Authentication failed")
            /\ UNCHANGED auth_response
       ELSE /\ auth_response' = reply.body
            /\ pc' = "check_token"
            /\ UNCHANGED <<exitCode, message>>
  /\ UNCHANGED <<start_time, end_time, date, num_players, environ, email,
                 password, file, file_at_start, config, response_input,
                 zipcode, search_reply, found, selection_input, selected,
                 courses, readCount, writeCount, prompts>>

\* auth_response.get('idToken')
IdToken(resp) == IF "idToken" \in DOMAIN resp THEN resp["idToken"] ELSE None

CheckToken ==
  /\ pc = "check_token"
  /\ IF ~Truthy(IdToken(auth_response))
     THEN Fail("Failed to get authentication token")
     ELSE /\ pc' = "update"
          /\ UNCHANGED <<exitCode, message>>
  /\ UNCHANGED <<start_time, end_time, date, num_players, environ, email,
                 password, file, file_at_start, config, response_input,
                 zipcode, search_reply, found, selection_input, selected,
                 courses, auth_response, net, readCount, writeCount, prompts>>

\* the body built from the selector's result instead of the resolved list
UpdatePayload_FromSelected(st, en, dt, players, crs) ==
  [courses |-> selected,
   start_times |-> <<ParseInt(st).val>>,
   end_times |-> <<ParseInt(en).val>>,
   players |-> <<players>>,
   dates |-> <<dt>>]

\* the preferences of the request body built by update_golfer_preferences
\* from str(start_time), str(end_time), date, str(num_players), courses
UpdatePayload(st, en, dt, players, crs) ==
  [courses |-> crs,
   start_times |-> <<ParseInt(st).val>>,
   end_times |-> <<ParseInt(en).val>>,
   players |-> <<players>>,
   dates |-> <<dt>>]

UpdatePreferences ==
  /\ pc = "update"
  /\ net' = Append(net,
        [kind |-> "update",
         bearer |-> IdToken(auth_response),
         preferences |-> UpdatePayload(IntToText(start_time),
                                       IntToText(end_time), date,
                                       IntToText(num_players), courses)])
  /\ \E reply \in UpdateReplies :
       IF reply = "ok"
       THEN /\ pc' = "exit"
            /\ exitCode' = 0
            /\ UNCHANGED message
       ELSE Fail("Error updating preferences")
  /\ UNCHANGED <<start_time, end_time, date, num_players, environ, email,
                 password, file, file_at_start, config, response_input,
                 zipcode, search_reply, found, selection_input, selected,
                 courses, auth_response, readCount, writeCount, prompts>>

\* ---------------------------------------------------------- specifications
Next ==
  \/ ValidateArgs
  \/ ValidateDate
  \/ LoadCredentials
  \/ LoadConfig
  \/ ReusePrompt
  \/ ZipPrompt
  \/ SearchCourses
  \/ CheckFound
  \/ SelectCourses
  \/ SaveSelection
  \/ CheckCourses
  \/ Authenticate
  \/ CheckToken
  \/ UpdatePreferences

Spec == Init /\ [][Next]_vars

\* argument validation alone, over every hour and player count in range
InitArgs == InitWith(HoursFull, PlayersFull, {CHOOSE d \in GoodDates : TRUE},
                     {[EMAIL |-> "set", PASSWORD |-> "set"]},
                     {[kind |-> "missing", data |-> EmptyDict]})

NextArgs == ValidateArgs

SpecArgs == InitArgs /\ [][NextArgs]_vars

\* ------------------------------------------------------------- properties
Kinds(requests) == [i \in 1..Len(requests) |-> requests[i].kind]

Issued(kind) == \E i \in 1..Len(net) : net[i].kind = kind

IsAuthOrUpdate(r) == r.kind \in {"auth", "update"}

\* the conditions under which the command line or the environment is
\* invalid, stated on the inputs
ValidationFails ==
  \/ start_time < 0 \/ start_time > 23
  \/ end_time < 0 \/ end_time > 23
  \/ start_time >= end_time
  \/ num_players < 1 \/ num_players > 4
  \/ date \in BadDates
  \/ environ.EMAIL \in {None, ""}
  \/ environ.PASSWORD \in {None, ""}

\* the config file held a non-empty default_courses list when the run began
SavedAtStart ==
  /\ file_at_start.kind = "json"
  /\ "default_courses" \in DOMAIN file_at_start.data
  /\ file_at_start.data["default_courses"] # <<>>

GotToken ==
  /\ "idToken" \in DOMAIN auth_response
  /\ auth_response["idToken"] \notin {None, ""}

\* the identifiers at the given 1-based positions of a listing, positions
\* outside the listing skipped
RECURSIVE Pick(_, _)
Pick(listing, positions) ==
  IF positions = <<>> THEN <<>>
  ELSE (IF Head(positions) \in 1..Len(listing)
        THEN <<listing[Head(positions)].course_name>> ELSE <<>>)
       \o Pick(listing, Tail(positions))

\* C1: a run whose arguments, date or credentials are invalid never issues
\* a network request, never gets past the three validation steps, and
\* when it has ended its exit code is 1.
C1_ValidationBeforeNetwork ==
  ValidationFails =>
    /\ net = <<>>
    /\ pc \in {"validate_args", "validate_date", "load_credentials", "exit"}
    /\ (pc = "exit" => exitCode = 1)

C1_Witness ==
  /\ pc = "exit" /\ exitCode = 1 /\ net = <<>>
  /\ environ.EMAIL = "set" /\ environ.PASSWORD = ""
  /\ message = "EMAIL and PASSWORD must be set in .env file"

\* C2 as stated: every finished run with valid arguments, credentials and
\* a saved course list has issued exactly one authentication request and
\* then exactly one preferences-update request.
C2_Original ==
  (pc = "exit" /\ ~ValidationFails /\ SavedAtStart) =>
    Kinds(SelectSeq(net, IsAuthOrUpdate)) = <<"auth", "update">>

\* C2 amended: no run issues more than one authentication request or more
\* than one preferences-update request, and an update only follows an
\* authentication; a finished run with valid arguments, credentials and
\* a saved course list, in which the saved list is reused and the
\* authentication reply carries an idToken, has issued exactly the
\* authentication request and then the preferences-update request.
C2_Amended ==
  /\ Kinds(SelectSeq(net, IsAuthOrUpdate))
       \in {<<>>, <<"auth">>, <<"auth", "update">>}
  /\ (pc = "exit" /\ ~ValidationFails /\ SavedAtStart
        /\ response_input \in AnswersKeep /\ GotToken) =>
       Kinds(net) = <<"auth", "update">>

C2_Witness ==
  /\ pc = "exit" /\ exitCode = 0 /\ SavedAtStart
  /\ response_input \in AnswersKeep /\ GotToken
  /\ Kinds(net) = <<"auth", "update">>

\* C3: after an empty ZIP code, an empty search result or an empty
\* selection the run ends with exit code 1 without a config write, an
\* authentication request or an update request; without an idToken from
\* the authentication there is no update request and the run ends with
\* exit code 1.
C3_FailureHalts ==
  /\ zipcode = <<>> =>
       /\ pc = "exit" /\ exitCode = 1
       /\ writeCount = 0 /\ file = file_at_start /\ net = <<>>
  /\ (Issued("search") /\ found = <<>>) =>
       /\ pc \in {"check_found", "exit"}
       /\ (pc = "exit" => exitCode = 1)
       /\ writeCount = 0 /\ file = file_at_start
       /\ ~Issued("auth") /\ ~Issued("update")
  /\ (prompts > 0 /\ selected = <<>>) =>
       /\ pc \in {"select", "check_selected", "exit"}
       /\ (pc = "exit" => exitCode = 1)
       /\ writeCount = 0 /\ file = file_at_start
       /\ ~Issued("auth") /\ ~Issued("update")
  /\ (Issued("auth") /\ ~GotToken) =>
       /\ pc \in {"check_token", "exit"}
       /\ (pc = "exit" => exitCode = 1)
       /\ ~Issued("update")

C3_Witness ==
  /\ pc = "exit" /\ exitCode = 1
  /\ prompts > 0 /\ selected = <<>> /\ selection_input \in SelectOutOfRange
  /\ message = "No courses selected."

\* C4 as stated: a selection line that is non-numeric or names a position
\* outside the listing makes the selector print the error and prompt
\* again without returning.
C4_Original ==
  [][ (pc = "select" /\ found # <<>>
        /\ selection_input' \in SelectNonNumeric \cup SelectOutOfRange) =>
      (/\ pc' = "select"
       /\ prompts' = prompts + 1
       /\ message' = "Invalid selection. Please try again."
       /\ selected' = selected) ]_vars

\* C4 amended: a selection line with a non-numeric entry makes the
\* selector print the error and prompt again without returning, each time
\* it is entered; a numeric line that names positions outside the listing
\* is not re-prompted: the selector returns the identifiers at the
\* positions inside the listing, in the order entered, which is the empty
\* list when no position is inside.
C4_Amended ==
  [][ (pc = "select" /\ found # <<>>) =>
      /\ selection_input' \in SelectNonNumeric =>
           /\ pc' = "select"
           /\ prompts' = prompts + 1
           /\ message' = "Invalid selection. Please try again."
           /\ selected' = selected
           /\ exitCode' = NoExit
      /\ \A c \in OutOfRangeCases :
           selection_input' = c.line =>
             /\ pc' = "check_selected"
             /\ selected' = Pick(found, c.positions)
             /\ message' = message ]_vars

C4_Witness ==
  /\ pc = "select" /\ prompts = MaxPrompts
  /\ selection_input \in SelectNonNumeric
  /\ message = "Invalid selection. Please try again."

\* C5: when the search request fails, or succeeds without a courses key,
\* the search hands an empty list to its caller and the process has not
\* exited.
C5_SearchFailureAbsorbed ==
  [][ (pc = "search"
        /\ (search_reply'.status # "ok"
             \/ "courses" \notin DOMAIN search_reply'.body)) =>
      (/\ found' = <<>>
       /\ pc' = "check_found"
       /\ exitCode' = NoExit
       /\ Kinds(net') = Append(Kinds(net), "search")) ]_vars

C5_Witness ==
  /\ pc = "check_found" /\ search_reply.status = "http_500"
  /\ found = <<>> /\ exitCode = NoExit

\* C6: once the arguments are validated, the run has gone on to the date
\* check exactly when 0<=s<=23, 0<=e<=23, s<e and 1<=p<=4, and has
\* otherwise ended with exit code 1.
C6_ArgsAcceptedIff ==
  pc # "validate_args" =>
    IF /\ 0 <= start_time /\ start_time <= 23
       /\ 0 <= end_time /\ end_time <= 23
       /\ start_time < end_time
       /\ 1 <= num_players /\ num_players <= 4
    THEN pc = "validate_date" /\ exitCode = NoExit
    ELSE pc = "exit" /\ exitCode = 1

C6_Witness ==
  /\ pc = "exit" /\ exitCode = 1
  /\ start_time = end_time /\ start_time \in 0..23 /\ num_players \in 1..4

C8_SelectorOrder ==
  [][ (pc = "select" /\ found # <<>>) =>
      /\ selection_input' \in SelectAll =>
           /\ pc' = "check_selected"
           /\ selected' = [i \in 1..Len(found) |-> found[i].course_name]
      /\ \A ix \in IndexLists :
           (/\ selection_input' = Render(ix)
            /\ \A i \in 1..Len(ix) : ix[i] <= Len(found)) =>
             /\ pc' = "check_selected"
             /\ selected' = [i \in 1..Len(ix) |-> found[ix[i]].course_name] ]_vars

C8_Witness ==
  /\ pc = "check_selected"
  /\ selection_input = <<"2", ",", "2">>
  /\ selected = <<"augusta", "augusta">>

\* C9: every preferences-update request issued carries a non-empty course
\* list.
C9_UpdateHasCourses ==
  \A i \in 1..Len(net) :
    net[i].kind = "update" => net[i].preferences.courses # <<>>

C9_Witness ==
  /\ Issued("update") /\ SavedAtStart /\ response_input \in AnswersKeep
  /\ net[Len(net)].preferences.courses = file_at_start.data["default_courses"]

\* C10: when the config held a non-empty default_courses list, the run
\* reaches the ZIP prompt, the course search, the selection or a config
\* write only after an answer of reset, n or no (any case, surrounding
\* blanks ignored), such an answer does not reuse the saved list, and any
\* other answer reuses it with no search request and no config write.
C10_ReuseUnlessReset ==
  SavedAtStart =>
    /\ (\/ pc \in {"zip_prompt", "search", "check_found", "select",
                    "check_selected"}
        \/ Issued("search") \/ writeCount > 0 \/ prompts > 0
        \/ zipcode # NoText) => response_input \in AnswersReset
    /\ (response_input \in AnswersReset /\ writeCount = 0) => courses = <<>>
    /\ response_input \in AnswersKeep =>
         /\ courses = file_at_start.data["default_courses"]
         /\ ~Issued("search")
         /\ writeCount = 0 /\ file = file_at_start
         /\ pc \in {"check_courses", "authenticate", "check_token",
                     "update", "exit"}

C10_Witness ==
  /\ pc = "exit" /\ exitCode = 0 /\ SavedAtStart
  /\ response_input = <<"m", "a", "y", "b", "e">>
  /\ ~Issued("search")

====
